---- MODULE Spec2Model ----
(***************************************************************************)
(* Model of arrgs' interactive supervisor (src/src/interactive.rs): the    *)
(* App state, the mpsc event channel, and the threads that feed it (the    *)
(* keyboard thread, the input thread, one runner thread per batch), with   *)
(* the child processes as their environment.                               *)
(*                                                                         *)
(* Vec indices are 0-based in the source and 1-based here: processes[pid]  *)
(* of the source is processes[pid + 1] of the model.  App::keys (the last  *)
(* eight key codes, shown in the header line) is written by                *)
(* handle_key_event and read by the renderer only; it is left out.  The   *)
(* children write UTF-8 text, so read_line returns Ok.                     *)
(***************************************************************************)
EXTENDS Integers, Sequences, FiniteSets, TLC

\* ------------------------------------------------------------------ bounds
\* Number of tokens on the supervisor's input.
NumTokens == 3
\* Number of lines the children write to their stdout, all together.
MaxLines == 2
\* Number of terminal events the keyboard thread reads before its read fails.
MaxKeys == 1

\* ------------------------------------------------------- program constants
U16Max == 65535
OverviewTail == 5
ColumnStep == 4
FrameBorder == 2

\* ------------------------------------------------------------- input sets
TokenPool == <<"a", "b", "c", "d">>
InputTokens == SubSeq(TokenPool, 1, NumTokens)
NargsChoices == {2, 3}
\* Terminal heights the frame can have when it is drawn.
Heights == {0, 3}
\* A terminal that is not resized.
FixedHeight == {3}
KeyCodes == {"q", "Esc", "/", "w", "PageUp", "PageDown", "Up", "Down",
             "Left", "Right", "Home", "End", "Other"}
KeyEvents == [code : KeyCodes, kind : {"Press"}]
                 \cup {[code |-> "q", kind |-> "Release"]}
\* The keys that quit, change the view or move the selection.
NavKeys == [code : {"q", "/", "PageUp", "PageDown"}, kind : {"Press"}]
\* The key that quits.
QuitKeys == [code : {"q"}, kind : {"Press"}]
\* What a child's exit can be: exit code 0, exit code 1, killed by a signal.
ExitResults == {[code |-> 0, signal |-> FALSE],
                [code |-> 1, signal |-> FALSE],
                [code |-> -1, signal |-> TRUE]}

VARIABLES
    processes,        \* App::processes
    exit,             \* App::exit
    selected,         \* App::selected
    scroll_position,  \* App::scroll_position
    wrap,             \* App::wrap
    expanded,         \* App::expanded
    max_lines,        \* App::max_lines
    queue,            \* the mpsc channel of AppEvent
    mainPc,           \* where the main thread is in App::run
    joinPid,          \* the thread handle_exit_event is joining, or NoThread
    panicMsg,         \* why the main thread panicked
    runners,          \* the runner threads, in spawn order
    feeder,           \* the input thread
    keyboard,         \* the keyboard thread
    nargs,            \* Options::nargs
    env,              \* what surrounds the program: its stdin, the keys
                      \* the user may type and how many, the lines the
                      \* children may still write, the heights the terminal
                      \* may have, the values Options::nargs may have
    exec,             \* the locals of Sequential::execute or
                      \* Parallel::execute
    children,         \* the child processes an executor has started
    splitter          \* a Splitter and the chunks taken from it

\* What the modes without a terminal use, and the splitter on its own.
batchVars == <<exec, children, splitter>>

vars == <<processes, exit, selected, scroll_position, wrap, expanded,
          max_lines, queue, mainPc, joinPid, panicMsg, runners, feeder,
          keyboard, nargs, env, batchVars>>

\* ---------------------------------------------------------------- helpers
Min(a, b) == IF a < b THEN a ELSE b
SatSub(a, b) == IF a > b THEN a - b ELSE 0
SatAdd16(a, b) == IF a + b > U16Max THEN U16Max ELSE a + b
AsU16(n) == n % (U16Max + 1)
Take(s, k) == SubSeq(s, 1, Min(k, Len(s)))
Drop(s, k) == SubSeq(s, Min(k, Len(s)) + 1, Len(s))

NoThread == 0

\* Option<ProcessStatus>: None, or Some of the three ProcessStatus variants.
StatusNone == [kind |-> "None", code |-> 0]
Success == [kind |-> "Success", code |-> 0]
Failure(c) == [kind |-> "Failure", code |-> c]
Signal == [kind |-> "Signal", code |-> 0]
IsTerminal(st) == st.kind \in {"Success", "Failure", "Signal"}

\* enum AppEvent
KeyEvent(ke) == [type |-> "KeyEvent", key |-> ke]
Input(inputs) == [type |-> "Input", inputs |-> inputs]
Output(pid, lines) == [type |-> "Output", pid |-> pid, lines |-> lines]
Exit(pid, status) == [type |-> "Exit", pid |-> pid, status |-> status]

\* The receiver lives in App::run: it is dropped when run returns or unwinds.
RxAlive == mainPc \in {"draw", "events", "join"}

\* Sender::send: appends to the channel, or fails when the receiver is gone.
SendOk == RxAlive
Sent(q, ev) == IF SendOk THEN Append(q, ev) ELSE q

\* Which thread a panic unwinds: the main thread records its message.
Panic(msg) == mainPc' = "panicked" /\ panicMsg' = msg

IndexPanic == "index out of bounds"
UnwrapPanic == "called Option::unwrap() on a None value"
DisconnectedPanic == "all event senders disconnected"

\* The terminal delivers keyboard.left more events and then fails: the
\* event::read() that follows the last event returns Err, which ends the
\* while-let loop and the thread.
AfterRead(left) == IF left = 0 THEN "done" ELSE "read"

\* ------------------------------------------------------------------- Init
\* Options::mode is interactive: no executor runs, no Splitter is on its own.
NoExecutor == [mode |-> "Interactive"]
NoSplitter == [pc |-> "none"]
BatchIdle ==
    /\ exec = NoExecutor
    /\ children = <<>>
    /\ splitter = NoSplitter

\* The App of App::default() in App::run, before the first turn of its loop.
InitIn(world) ==
    /\ processes = <<>>
    /\ exit = FALSE
    /\ selected = 0
    /\ scroll_position = <<0, 0>>
    /\ wrap = FALSE
    /\ expanded = FALSE
    /\ max_lines = 0
    /\ queue = <<>>
    /\ mainPc = "draw"
    /\ joinPid = NoThread
    /\ panicMsg = ""
    /\ runners = <<>>
    /\ feeder = [pc |-> "read", rest |-> <<>>]
    /\ keyboard = [pc |-> AfterRead(world.nkeys), left |-> world.nkeys]
    /\ nargs \in world.nargs
    /\ env = world

\* The supervisor started on NumTokens tokens, in a terminal that is not
\* resized, with a user who types MaxKeys of the keys that quit, change the
\* view or move the selection.
Init ==
    /\ InitIn([stdin |-> InputTokens, keys |-> NavKeys, nkeys |-> MaxKeys,
               lines |-> MaxLines, heights |-> FixedHeight,
               nargs |-> NargsChoices])
    /\ BatchIdle

\* --------------------------------------------------- the scroll position
\* App::reset_scroll_position, as the value it assigns; the caller checks
\* that processes[selected] exists.
TailScroll(procs, sel, exp, ml) ==
    LET n == Len(procs[sel + 1].output_lines) IN
    << IF exp THEN SatSub(AsU16(n), ml) ELSE AsU16(SatSub(n, OverviewTail)),
       0 >>

\* self.reset_scroll_position() with the fields as the handler has set them
\* so far; indexing processes[selected] panics when it is out of range.
ResetScrollPosition(procs, sel, exp) ==
    IF sel < Len(procs)
    THEN /\ scroll_position' = TailScroll(procs, sel, exp, max_lines)
         /\ UNCHANGED <<mainPc, panicMsg>>
    ELSE /\ Panic(IndexPanic)
         /\ UNCHANGED scroll_position

\* len(processes[selected].output_lines).saturating_sub(1) as u16
LastLine(procs, sel) == AsU16(SatSub(Len(procs[sel + 1].output_lines), 1))

\* ------------------------------------------------------ App: key presses
\* KeyCode::PageUp / KeyCode::PageDown: the new value of selected.
PrevSelected(sel, n) == Min(SatSub(sel, 1), SatSub(n, 1))
\* PageDown without the clamp to the last record.
NextSelectedUnclamped(sel, n) == sel + 1
NextSelected(sel, n) == Min(sel + 1, SatSub(n, 1))

\* KeyCode::Up / KeyCode::Down: the new line offset; processes[selected] is
\* indexed, so the caller checks that it exists.
ScrollUp(line, procs, sel) == Min(SatSub(line, 1), LastLine(procs, sel))
ScrollDown(line, procs, sel) == Min(SatAdd16(line, 1), LastLine(procs, sel))

\* KeyCode::Left / KeyCode::Right: the new column offset.
ScrollLeft(col, wr) == IF wr THEN 0 ELSE SatSub(col, ColumnStep)
\* Right with wrapping_add in place of saturating_add.
ScrollRightWrapping(col, wr) == IF wr THEN 0 ELSE AsU16(col + ColumnStep)
ScrollRight(col, wr) == IF wr THEN 0 ELSE SatAdd16(col, ColumnStep)

\* The match on key_event.code in App::handle_key_event.
KeyPressed(code) ==
    CASE code \in {"q", "Esc"} ->
            /\ exit' = TRUE
            /\ UNCHANGED <<processes, selected, scroll_position, wrap,
                           expanded, max_lines, mainPc, panicMsg>>
      [] code = "/" ->
            /\ expanded' = ~expanded
            /\ ResetScrollPosition(processes, selected, ~expanded)
            /\ UNCHANGED <<processes, exit, selected, wrap, max_lines>>
      [] code = "w" ->
            /\ wrap' = ~wrap
            /\ UNCHANGED <<processes, exit, selected, scroll_position,
                           expanded, max_lines, mainPc, panicMsg>>
      [] code = "PageUp" ->
            /\ selected' = PrevSelected(selected, Len(processes))
            /\ ResetScrollPosition(processes, selected', expanded)
            /\ UNCHANGED <<processes, exit, wrap, expanded, max_lines>>
      [] code = "PageDown" ->
            /\ selected' = NextSelected(selected, Len(processes))
            /\ ResetScrollPosition(processes, selected', expanded)
            /\ UNCHANGED <<processes, exit, wrap, expanded, max_lines>>
      [] code \in {"Up", "Down", "End"} ->
            /\ IF selected < Len(processes)
               THEN /\ scroll_position' =
                        << CASE code = "Up" ->
                                  ScrollUp(scroll_position[1], processes, selected)
                             [] code = "Down" ->
                                  ScrollDown(scroll_position[1], processes, selected)
                             [] code = "End" -> LastLine(processes, selected),
                           scroll_position[2] >>
                    /\ UNCHANGED <<mainPc, panicMsg>>
               ELSE /\ Panic(IndexPanic)
                    /\ UNCHANGED scroll_position
            /\ UNCHANGED <<processes, exit, selected, wrap, expanded, max_lines>>
      [] code = "Left" ->
            /\ scroll_position' =
                   <<scroll_position[1], ScrollLeft(scroll_position[2], wrap)>>
            /\ UNCHANGED <<processes, exit, selected, wrap, expanded,
                           max_lines, mainPc, panicMsg>>
      [] code = "Right" ->
            /\ scroll_position' =
                   <<scroll_position[1], ScrollRight(scroll_position[2], wrap)>>
            /\ UNCHANGED <<processes, exit, selected, wrap, expanded,
                           max_lines, mainPc, panicMsg>>
      [] code = "Home" ->
            /\ scroll_position' = <<0, scroll_position[2]>>
            /\ UNCHANGED <<processes, exit, selected, wrap, expanded,
                           max_lines, mainPc, panicMsg>>
      [] OTHER ->
            UNCHANGED <<processes, exit, selected, scroll_position, wrap,
                        expanded, max_lines, mainPc, panicMsg>>

\* App::handle_events receiving AppEvent::KeyEvent: App::handle_key_event.
HandleKeyEvent ==
    /\ mainPc = "events"
    /\ queue # <<>>
    /\ Head(queue).type = "KeyEvent"
    /\ queue' = Tail(queue)
    /\ IF Head(queue).key.kind = "Press"
       THEN KeyPressed(Head(queue).key.code)
       ELSE UNCHANGED <<processes, exit, selected, scroll_position, wrap,
                        expanded, max_lines, mainPc, panicMsg>>
    /\ UNCHANGED <<joinPid, runners, feeder, keyboard, nargs, env, batchVars>>

\* -------------------------------------------------- App: the other events
\* The runner's `status` before try_wait has returned one, and after its
\* last use.
NoResult == [code |-> 0, signal |-> FALSE]

\* Every runner given the first record's index, whatever the length is.
SpawnPidFirst(procs) == 0

\* The length after the push taken for the new record's index.
SpawnPidAfterPush(procs) == Len(procs) + 1

\* let pid = self.processes.len();
SpawnPid(procs) == Len(procs)

\* The Process pushed by spawn_sub_process; handle is Some(thread).
NewProcess(args, thread) ==
    [args |-> args, output_lines |-> <<>>, status |-> StatusNone,
     handle |-> thread]

\* A push at the front instead of the back.
PushFront(procs, p) == <<p>> \o procs

\* self.processes.push(..)
PushProcess(procs, p) == Append(procs, p)

\* self.selected = self.processes.len() - 1, after the push
SelectNewest(procs) == Len(procs) - 1

\* The streams of the Command the runner builds: stdout is set to
\* Stdio::piped(); stdin is not set, and Command::spawn then inherits the
\* parent's.
RunnerCommand == [stdin |-> "inherit", stdout |-> "piped"]

\* The thread std::thread::spawn starts: the closure's captures and where it
\* is.  child_stdin is what the child's stdin is connected to, pipe is what
\* the child will still write to its stdout, emitted the lines this thread
\* has sent so far.
NewRunner(pid, inputs) ==
    [pid |-> pid, inputs |-> inputs, pc |-> "spawn", child |-> "none",
     child_stdin |-> "none", result |-> NoResult, pipe |-> <<>>,
     emitted |-> <<>>]

\* App::handle_events receiving AppEvent::Input: App::spawn_sub_process.
SpawnSubProcess ==
    /\ mainPc = "events"
    /\ queue # <<>>
    /\ Head(queue).type = "Input"
    /\ queue' = Tail(queue)
    /\ LET inputs == Head(queue).inputs
           pid == SpawnPid(processes)
       IN /\ runners' = Append(runners, NewRunner(pid, inputs))
          /\ processes' =
                 PushProcess(processes, NewProcess(inputs, Len(runners) + 1))
          /\ selected' = SelectNewest(processes')
    /\ UNCHANGED <<exit, scroll_position, wrap, expanded, max_lines, mainPc,
                   joinPid, panicMsg, feeder, keyboard, nargs, env, batchVars>>

\* The new lines assigned instead of appended.
ReplaceLines(old, lines) == lines

\* The new lines put in front of the old ones.
PrependLines(old, lines) == lines \o old

\* self.processes[pid].output_lines.extend(lines)
ExtendLines(old, lines) == old \o lines

\* App::handle_events receiving AppEvent::Output: App::handle_output_event.
HandleOutputEvent ==
    /\ mainPc = "events"
    /\ queue # <<>>
    /\ Head(queue).type = "Output"
    /\ queue' = Tail(queue)
    /\ LET pid == Head(queue).pid
           lines == Head(queue).lines
       IN IF pid < Len(processes)
          THEN /\ processes' =
                      [processes EXCEPT ![pid + 1].output_lines =
                                            ExtendLines(@, lines)]
               /\ IF selected = pid
                  THEN ResetScrollPosition(processes', selected, expanded)
                  ELSE UNCHANGED <<scroll_position, mainPc, panicMsg>>
          ELSE /\ Panic(IndexPanic)
               /\ UNCHANGED <<processes, scroll_position>>
    /\ UNCHANGED <<exit, selected, wrap, expanded, max_lines, joinPid,
                   runners, feeder, keyboard, nargs, env, batchVars>>

\* self.processes[pid].status = Some(status)
SetStatus(old, status) == status

\* App::handle_events receiving AppEvent::Exit: App::handle_exit_event, up
\* to the call of join().  handle.take() leaves None in the record.
HandleExitEvent ==
    /\ mainPc = "events"
    /\ queue # <<>>
    /\ Head(queue).type = "Exit"
    /\ queue' = Tail(queue)
    /\ LET pid == Head(queue).pid
           status == Head(queue).status
       IN IF pid < Len(processes)
          THEN /\ processes' =
                      [processes EXCEPT
                          ![pid + 1].status = SetStatus(@, status),
                          ![pid + 1].handle = NoThread]
               /\ IF processes[pid + 1].handle # NoThread
                  THEN /\ mainPc' = "join"
                       /\ joinPid' = processes[pid + 1].handle
                       /\ UNCHANGED panicMsg
                  ELSE /\ Panic(UnwrapPanic)
                       /\ UNCHANGED joinPid
          ELSE /\ Panic(IndexPanic)
               /\ UNCHANGED <<processes, joinPid>>
    /\ UNCHANGED <<exit, selected, scroll_position, wrap, expanded,
                   max_lines, runners, feeder, keyboard, nargs, env, batchVars>>

\* A thread that has returned or panicked.
Finished(r) == r.pc \in {"done", "panicked"}

\* JoinHandle::join in App::handle_exit_event: returns once the thread has
\* ended (Ok or Err, dropped by `let _`).
JoinReturns ==
    /\ mainPc = "join"
    /\ Finished(runners[joinPid])
    /\ mainPc' = "events"
    /\ joinPid' = NoThread
    /\ UNCHANGED <<processes, exit, selected, scroll_position, wrap,
                   expanded, max_lines, queue, panicMsg, runners, feeder,
                   keyboard, nargs, env, batchVars>>

\* ------------------------------------------------------------ App::run
\* Widget for &App: the expanded view indexes processes[selected].
RenderPanics == expanded /\ ~(selected < Len(processes))

\* terminal.draw: max_lines from the frame's height, then the render; the
\* loop goes on to handle_events.
DrawFrame ==
    /\ \E height \in env.heights : max_lines' = SatSub(height, FrameBorder)
    /\ IF RenderPanics
       THEN Panic(IndexPanic)
       ELSE mainPc' = "events" /\ UNCHANGED panicMsg

\* The first turn of `while !self.exit`: exit is false in App::default().
Draw ==
    /\ mainPc = "draw"
    /\ DrawFrame
    /\ UNCHANGED <<processes, exit, selected, scroll_position, wrap,
                   expanded, queue, joinPid, runners, feeder, keyboard,
                   nargs, env, batchVars>>

\* The clones held by the threads only, as if App::run kept no Sender.
SendersAliveThreadsOnly ==
    (IF keyboard.pc = "read" THEN 1 ELSE 0)
      + (IF feeder.pc \in {"read", "send"} THEN 1 ELSE 0)
      + Cardinality({i \in 1..Len(runners) : ~Finished(runners[i])})

\* The Sender clones alive: `sender` of App::run, and one per live thread.
SendersAlive ==
    1 + (IF keyboard.pc = "read" THEN 1 ELSE 0)
      + (IF feeder.pc \in {"read", "send"} THEN 1 ELSE 0)
      + Cardinality({i \in 1..Len(runners) : ~Finished(runners[i])})

\* A loop that tests self.exit after every event instead of after the drain:
\* it returns as soon as exit is set, whatever is left in the channel.
RecvReturnsOnExit ==
    /\ mainPc = "events"
    /\ queue = <<>> \/ exit
    /\ IF exit
       THEN mainPc' = "done" /\ UNCHANGED <<max_lines, panicMsg>>
       ELSE DrawFrame
    /\ UNCHANGED <<processes, exit, selected, scroll_position, wrap,
                   expanded, queue, joinPid, runners, feeder, keyboard,
                   nargs, env, batchVars>>

\* rx.try_recv() on an empty channel.  Disconnected panics.  Empty ends
\* handle_events, and App::run tests `while !self.exit`: it returns, or
\* draws the next frame and calls handle_events again.
RecvEmpty ==
    /\ mainPc = "events"
    /\ queue = <<>>
    /\ IF SendersAlive = 0
       THEN Panic(DisconnectedPanic) /\ UNCHANGED max_lines
       ELSE IF exit
            THEN mainPc' = "done" /\ UNCHANGED <<max_lines, panicMsg>>
            ELSE DrawFrame
    /\ UNCHANGED <<processes, exit, selected, scroll_position, wrap,
                   expanded, queue, joinPid, runners, feeder, keyboard,
                   nargs, env, batchVars>>

\* ------------------------------------------------------- runner threads
\* The lines a child writes: line k of a child is the number k.
ChildLines(n) == [k \in 1..n |-> k]

\* A classification by the exit code alone, with no case for a signal.
ClassifyByCode(result) ==
    IF result.code = 0 THEN Success ELSE Failure(result.code)

\* The status classification at the end of the runner's loop.
Classify(result) ==
    IF result.code = 0 /\ ~result.signal THEN Success
    ELSE IF ~result.signal THEN Failure(result.code)
    ELSE Signal

\* A failed spawn that takes the whole process down instead of the thread.
RunnerSpawnAborts(i) ==
    /\ runners[i].pc = "spawn"
    /\ \/ \E n \in 0..env.lines :
             /\ runners' = [runners EXCEPT ![i].pc = "poll",
                                           ![i].child = "running",
                                           ![i].child_stdin =
                                               RunnerCommand.stdin,
                                           ![i].pipe = ChildLines(n)]
             /\ env' = [env EXCEPT !.lines = @ - n]
             /\ UNCHANGED <<mainPc, panicMsg>>
       \/ /\ runners' = [runners EXCEPT ![i].pc = "panicked"]
          /\ Panic("could not spawn output process")
          /\ UNCHANGED env
    /\ UNCHANGED <<processes, exit, selected, scroll_position, wrap,
                   expanded, max_lines, queue, joinPid, feeder, keyboard,
                   nargs, batchVars>>

\* Command::spawn in the runner's closure: the child starts with its stdout
\* piped, or .expect panics the thread.
RunnerSpawn(i) ==
    /\ runners[i].pc = "spawn"
    /\ \/ \E n \in 0..env.lines :
             /\ runners' = [runners EXCEPT ![i].pc = "poll",
                                           ![i].child = "running",
                                           ![i].child_stdin =
                                               RunnerCommand.stdin,
                                           ![i].pipe = ChildLines(n)]
             /\ env' = [env EXCEPT !.lines = @ - n]
       \/ /\ runners' = [runners EXCEPT ![i].pc = "panicked"]
          /\ UNCHANGED env
    /\ UNCHANGED <<processes, exit, selected, scroll_position, wrap,
                   expanded, max_lines, queue, mainPc, joinPid, panicMsg,
                   feeder, keyboard, nargs, batchVars>>

\* The environment: a running child exits.  What it wrote stays in the
\* pipe, and the pipe ends after it: no other process holds its write end.
ChildExits(i) ==
    /\ runners[i].child = "running"
    /\ runners' = [runners EXCEPT ![i].child = "exited"]
    /\ UNCHANGED <<processes, exit, selected, scroll_position, wrap,
                   expanded, max_lines, queue, mainPc, joinPid, panicMsg,
                   feeder, keyboard, nargs, env, batchVars>>

\* child.try_wait() at the top of the loop: Ok(Some(status)) once the child
\* has exited (what it exited with is seen here first), Ok(None) while it
\* runs, or Err, which panics the thread (its stdout reader is dropped).
RunnerTryWait(i) ==
    /\ runners[i].pc = "poll"
    /\ \/ IF runners[i].child = "exited"
          THEN \E res \in ExitResults :
                  runners' = [runners EXCEPT ![i].pc = "drain",
                                             ![i].result = res]
          ELSE runners' = [runners EXCEPT ![i].pc = "read"]
       \/ runners' = [runners EXCEPT ![i].pc = "panicked", ![i].pipe = <<>>]
    /\ UNCHANGED <<processes, exit, selected, scroll_position, wrap,
                   expanded, max_lines, queue, mainPc, joinPid, panicMsg,
                   feeder, keyboard, nargs, env, batchVars>>

\* One send of the runner: the result of send is dropped (`let _ =`).
RunnerSends(i, ev) == queue' = Sent(queue, ev)

\* The Ok(None) arm taking the end of the pipe for the child's exit: Exit is
\* sent there too, before try_wait reports the exit.
RunnerReadLineExitsAtEof(i) ==
    /\ runners[i].pc = "read"
    /\ IF runners[i].pipe # <<>>
       THEN /\ queue' = Sent(queue, Output(runners[i].pid, <<Head(runners[i].pipe)>>))
            /\ runners' = [runners EXCEPT
                              ![i].pc = "poll",
                              ![i].pipe = Tail(@),
                              ![i].emitted = Append(@, Head(runners[i].pipe))]
       ELSE /\ runners[i].child = "exited"
            /\ runners' = [runners EXCEPT ![i].pc = "poll"]
            /\ queue' = Sent(queue, Exit(runners[i].pid, Success))
    /\ UNCHANGED <<processes, exit, selected, scroll_position, wrap,
                   expanded, max_lines, mainPc, joinPid, panicMsg, feeder,
                   keyboard, nargs, env, batchVars>>

\* The Ok(None) arm: stdout.read_line blocks until a line or the end of the
\* pipe; a line is sent as Output, amount == 0 continues the loop.
RunnerReadLine(i) ==
    /\ runners[i].pc = "read"
    /\ IF runners[i].pipe # <<>>
       THEN /\ RunnerSends(i, Output(runners[i].pid, <<Head(runners[i].pipe)>>))
            /\ runners' = [runners EXCEPT
                              ![i].pc = "poll",
                              ![i].pipe = Tail(@),
                              ![i].emitted = Append(@, Head(runners[i].pipe))]
       ELSE /\ runners[i].child = "exited"
            /\ runners' = [runners EXCEPT ![i].pc = "poll"]
            /\ UNCHANGED queue
    /\ UNCHANGED <<processes, exit, selected, scroll_position, wrap,
                   expanded, max_lines, mainPc, joinPid, panicMsg, feeder,
                   keyboard, nargs, env, batchVars>>

\* The Ok(Some(status)) arm without `if amount == 0 { break; }`: at the end
\* of the pipe read_line keeps returning Ok(0) and Exit is never sent.
RunnerDrainSpinsAtEof(i) ==
    /\ runners[i].pc = "drain"
    /\ runners[i].pipe # <<>>
    /\ queue' = Sent(queue, Output(runners[i].pid, <<Head(runners[i].pipe)>>))
    /\ runners' = [runners EXCEPT
                      ![i].pipe = Tail(@),
                      ![i].emitted = Append(@, Head(runners[i].pipe))]
    /\ UNCHANGED <<processes, exit, selected, scroll_position, wrap,
                   expanded, max_lines, mainPc, joinPid, panicMsg, feeder,
                   keyboard, nargs, env, batchVars>>

\* The Ok(Some(status)) arm: the rest of stdout is sent line by line, then
\* Exit with the classified status, and the loop breaks.
RunnerDrain(i) ==
    /\ runners[i].pc = "drain"
    /\ IF runners[i].pipe # <<>>
       THEN /\ RunnerSends(i, Output(runners[i].pid, <<Head(runners[i].pipe)>>))
            /\ runners' = [runners EXCEPT
                              ![i].pipe = Tail(@),
                              ![i].emitted = Append(@, Head(runners[i].pipe))]
       ELSE /\ RunnerSends(i, Exit(runners[i].pid, Classify(runners[i].result)))
            /\ runners' = [runners EXCEPT ![i].pc = "return",
                                              ![i].result = NoResult]
    /\ UNCHANGED <<processes, exit, selected, scroll_position, wrap,
                   expanded, max_lines, mainPc, joinPid, panicMsg, feeder,
                   keyboard, nargs, env, batchVars>>

\* A runner that, after its break, waits for the main loop to get on before
\* it ends: it does not end while the main loop is in join.
RunnerReturnsAfterJoin(i) ==
    /\ runners[i].pc = "return"
    /\ mainPc # "join"
    /\ runners' = [runners EXCEPT ![i].pc = "done"]
    /\ UNCHANGED <<processes, exit, selected, scroll_position, wrap,
                   expanded, max_lines, queue, mainPc, joinPid, panicMsg,
                   feeder, keyboard, nargs, env, batchVars>>

\* The closure returns after the break: the thread ends.
RunnerReturns(i) ==
    /\ runners[i].pc = "return"
    /\ runners' = [runners EXCEPT ![i].pc = "done"]
    /\ UNCHANGED <<processes, exit, selected, scroll_position, wrap,
                   expanded, max_lines, queue, mainPc, joinPid, panicMsg,
                   feeder, keyboard, nargs, env, batchVars>>

\* --------------------------------------------------------- input thread
\* A chunk one token short.
ChunkShort(rest, size) == Take(rest, size - 1)

\* SplitterChunks::next: take(chunk_size) of what is left.
Chunk(rest, size) == Take(rest, size)

\* spawn_input_process: read_to_end and the split; .expect panics the thread
\* when the read fails.
FeederRead ==
    /\ feeder.pc = "read"
    /\ \/ feeder' = [pc |-> "send", rest |-> env.stdin]
       \/ feeder' = [pc |-> "panicked", rest |-> <<>>]
    /\ UNCHANGED <<processes, exit, selected, scroll_position, wrap,
                   expanded, max_lines, queue, mainPc, joinPid, panicMsg,
                   runners, keyboard, nargs, env, batchVars>>

\* One turn of `for chunk in inputs.chunks(options.nargs)`: an empty chunk
\* ends the iterator and the thread.
FeederSend ==
    /\ feeder.pc = "send"
    /\ LET chunk == Chunk(feeder.rest, nargs) IN
       IF chunk = <<>>
       THEN /\ feeder' = [feeder EXCEPT !.pc = "done"]
            /\ UNCHANGED queue
       ELSE /\ queue' = Sent(queue, Input(chunk))
            /\ feeder' = [feeder EXCEPT !.rest = Drop(@, Len(chunk))]
    /\ UNCHANGED <<processes, exit, selected, scroll_position, wrap,
                   expanded, max_lines, mainPc, joinPid, panicMsg, runners,
                   keyboard, nargs, env, batchVars>>

\* ------------------------------------------------------ keyboard thread
\* event::read() returned a key event: it is sent, and .expect panics the
\* thread when the send fails.
KeyboardKey ==
    /\ keyboard.pc = "read"
    /\ keyboard.left > 0
    /\ \E ke \in env.keys :
          /\ queue' = Sent(queue, KeyEvent(ke))
          /\ keyboard' = [pc |-> IF SendOk THEN AfterRead(keyboard.left - 1)
                                           ELSE "panicked",
                          left |-> keyboard.left - 1]
    /\ UNCHANGED <<processes, exit, selected, scroll_position, wrap,
                   expanded, max_lines, mainPc, joinPid, panicMsg, runners,
                   feeder, nargs, env, batchVars>>

\* event::read() returned an event that is no key event: nothing is sent.
KeyboardOther ==
    /\ keyboard.pc = "read"
    /\ keyboard.left > 0
    /\ keyboard' = [pc |-> AfterRead(keyboard.left - 1),
                    left |-> keyboard.left - 1]
    /\ UNCHANGED <<processes, exit, selected, scroll_position, wrap,
                   expanded, max_lines, queue, mainPc, joinPid, panicMsg,
                   runners, feeder, nargs, env, batchVars>>

\* ------------------------------------------------------------------ Next
Next ==
    \/ Draw
    \/ RecvEmpty
    \/ HandleKeyEvent
    \/ SpawnSubProcess
    \/ HandleOutputEvent
    \/ HandleExitEvent
    \/ JoinReturns
    \/ \E i \in 1..Len(runners) : RunnerSpawn(i)
    \/ \E i \in 1..Len(runners) : ChildExits(i)
    \/ \E i \in 1..Len(runners) : RunnerTryWait(i)
    \/ \E i \in 1..Len(runners) : RunnerReadLine(i)
    \/ \E i \in 1..Len(runners) : RunnerDrain(i)
    \/ \E i \in 1..Len(runners) : RunnerReturns(i)
    \/ FeederRead
    \/ FeederSend
    \/ KeyboardKey
    \/ KeyboardOther

Spec == Init /\ [][Next]_vars

\* ================================================================ claims
IsPrefix(s, t) == Len(s) <= Len(t) /\ SubSeq(t, 1, Len(s)) = s

\* The main thread takes the event at the head of the channel in this step:
\* producers only append, so the channel gets shorter in no other step.
Dequeues(type) ==
    /\ mainPc = "events"
    /\ queue # <<>>
    /\ Head(queue).type = type
    /\ Len(queue') = Len(queue) - 1

\* C1: selected < processes.len() whenever processes is non-empty, and
\* selected = 0 whenever processes is empty, in every reachable state.
C1_SelectedInRange ==
    /\ selected >= 0
    /\ Len(processes) > 0 => selected < Len(processes)
    /\ Len(processes) = 0 => selected = 0

\* A key press has moved the selection off the newest of two records.
C1_Witness ==
    /\ Len(processes) = 2
    /\ selected = 0
    /\ mainPc = "events"

\* C2: applying a NewBatch (AppEvent::Input) appends exactly one record,
\* Running, with no output, the batch as its arguments and its handle held;
\* the records before it stay as they are, where they are; selected becomes
\* the new record's index.
C2_NewBatchAppends ==
    [][Dequeues("Input") =>
          /\ Len(processes') = Len(processes) + 1
          /\ SubSeq(processes', 1, Len(processes)) = processes
          /\ LET new == processes'[Len(processes')] IN
                /\ new.args = Head(queue).inputs
                /\ new.output_lines = <<>>
                /\ new.status = StatusNone
                /\ new.handle # NoThread
          /\ selected' = Len(processes)]_vars

\* Two records exist although the first one's child could not be spawned.
C2_Witness ==
    /\ Len(processes) = 2
    /\ runners[1].pc = "panicked"
    /\ runners[1].child = "none"
    /\ selected = 1

\* C3: a record's status starts as None (Running) and changes at most once,
\* to Success, Failure(code) or Signal; a terminal status never changes.
C3_StatusSetOnce ==
    [][/\ Len(processes') >= Len(processes)
       /\ \A i \in 1..Len(processes) :
             processes'[i].status # processes[i].status =>
                 /\ processes[i].status = StatusNone
                 /\ IsTerminal(processes'[i].status)
       /\ \A i \in (Len(processes) + 1)..Len(processes') :
             processes'[i].status = StatusNone]_vars

\* Both records have reached a terminal status, one of them Failure(1).
C3_Witness ==
    /\ Len(processes) = 2
    /\ processes[1].status = Failure(1)
    /\ IsTerminal(processes[2].status)

\* C4: a record's output_lines only grows, and once its status is terminal
\* no Output event is applied to it.
C4_OutputOnlyGrows ==
    [][/\ Len(processes') >= Len(processes)
       /\ \A i \in 1..Len(processes) :
             /\ IsPrefix(processes[i].output_lines, processes'[i].output_lines)
             /\ IsTerminal(processes[i].status) =>
                    processes'[i].output_lines = processes[i].output_lines
       /\ (Dequeues("Output") /\ Head(queue).pid < Len(processes)) =>
              ~IsTerminal(processes[Head(queue).pid + 1].status)]_vars

\* A record is terminal after two Output events were applied to it.
C4_Witness ==
    \E i \in 1..Len(processes) :
       /\ IsTerminal(processes[i].status)
       /\ Len(processes[i].output_lines) = 2

\* The lines of the Output events for pid that are in the channel, in order.
RECURSIVE InFlightLines(_, _)
InFlightLines(q, pid) ==
    IF q = <<>> THEN <<>>
    ELSE (IF Head(q).type = "Output" /\ Head(q).pid = pid
          THEN Head(q).lines ELSE <<>>) \o InFlightLines(Tail(q), pid)

\* C5: the events of one producer are applied in the order it sent them:
\* each record's output_lines is a prefix of the lines its runner emitted,
\* which are the child's lines in the order it wrote them, and while the
\* receiver lives the lines applied plus the lines in the channel are
\* exactly the lines emitted (none lost, duplicated or reordered).
C5_OutputInEmissionOrder ==
    \A i \in 1..Len(processes) :
       /\ i <= Len(runners)
       /\ runners[i].emitted = ChildLines(Len(runners[i].emitted))
       /\ IsPrefix(processes[i].output_lines, runners[i].emitted)
       /\ RxAlive =>
             processes[i].output_lines \o InFlightLines(queue, i - 1)
                 = runners[i].emitted

\* Both lines of one child have been applied, in the order it wrote them.
C5_Witness ==
    \E i \in 1..Len(processes) :
       /\ processes[i].output_lines = <<1, 2>>
       /\ runners[i].emitted = <<1, 2>>

\* C6: a record's handle is held exactly while its status is None; it is
\* taken once, in the step that applies the Exit event for its id, and that
\* step goes on to join it; no step finds the handle already taken.
C6_HandleHeld ==
    \A i \in 1..Len(processes) :
       (processes[i].handle # NoThread) <=> (processes[i].status = StatusNone)

\* (No record exists in the initial state, so every state in which one does
\* is the end of a step.)
C6_HandleTakenOnce ==
    [][/\ C6_HandleHeld'
       /\ panicMsg' # UnwrapPanic
       /\ \A i \in 1..Len(processes) :
             processes'[i].handle # processes[i].handle =>
                /\ processes[i].handle # NoThread
                /\ processes'[i].handle = NoThread
                /\ Dequeues("Exit")
                /\ Head(queue).pid = i - 1
                /\ mainPc' = "join"
                /\ joinPid' = processes[i].handle]_vars

\* A record's handle has been taken and its join has returned.
C6_Witness ==
    /\ mainPc = "events"
    /\ \E i \in 1..Len(processes) :
          /\ processes[i].handle = NoThread
          /\ IsTerminal(processes[i].status)
          /\ runners[i].pc = "done"

\* C8: an Output or Exit event at the head of the channel, which is the
\* next one handle_events takes, carries a pid below processes.len().
C8_EventPidKnown ==
    (mainPc = "events" /\ queue # <<>>
        /\ Head(queue).type \in {"Output", "Exit"})
    => Head(queue).pid < Len(processes)

\* The main thread is about to take an event of the second record's runner.
C8_Witness ==
    /\ mainPc = "events"
    /\ queue # <<>>
    /\ Head(queue).type \in {"Output", "Exit"}
    /\ Head(queue).pid = 1

\* The batches of an input of tokens, for batch size k: batch j holds the
\* tokens (j-1)k+1 .. jk, the last one what is left.
NumBatches(tokens, k) == (Len(tokens) + k - 1) \div k
Batch(tokens, k, j) == SubSeq(tokens, (j - 1) * k + 1, Min(j * k, Len(tokens)))

\* The batches the input thread has sent: the tokens it has taken from its
\* input, which are whole batches.
BatchesSent ==
    IF feeder.pc \in {"send", "done"}
    THEN NumBatches(SubSeq(env.stdin, 1, Len(env.stdin) - Len(feeder.rest)), nargs)
    ELSE 0

\* The Input events in the channel, in order.
InFlightInputs == SelectSeq(queue, LAMBDA ev : ev.type = "Input")

\* C9: one Input event per batch, in source order: record i holds batch i of
\* the input; while the receiver lives, the records plus the Input events
\* in the channel are the batches sent so far, in order; and once the input
\* thread is done and no Input event is left, there is one record per batch.
C9_OneRecordPerBatch ==
    /\ \A i \in 1..Len(processes) :
          /\ i <= NumBatches(env.stdin, nargs)
          /\ processes[i].args = Batch(env.stdin, nargs, i)
    /\ RxAlive =>
          /\ Len(processes) + Len(InFlightInputs) = BatchesSent
          /\ \A j \in 1..Len(InFlightInputs) :
                InFlightInputs[j].inputs
                    = Batch(env.stdin, nargs, Len(processes) + j)
          /\ (feeder.pc = "done" /\ InFlightInputs = <<>>) =>
                Len(processes) = NumBatches(env.stdin, nargs)

\* The input thread is done, the channel is empty, and the last record
\* holds the short last batch.
C9_Witness ==
    /\ feeder.pc = "done"
    /\ queue = <<>>
    /\ RxAlive
    /\ nargs = 2
    /\ Len(processes) = 2
    /\ processes[2].args = <<"c">>

\* A runner whose Command::spawn failed.
SpawnFailed(r) == r.pc = "panicked" /\ r.child = "none"

\* C10: a spawn failure ends only that batch's runner thread: the step
\* changes nothing of the main thread, the records, the channel or the other
\* runners, and an Input applied after it still gets its record and a
\* runner of its own.
C10_SpawnFailureConfined ==
    [][/\ \A i \in 1..Len(runners) :
             (runners[i].pc = "spawn" /\ SpawnFailed(runners'[i])) =>
                /\ UNCHANGED <<mainPc, panicMsg, processes, queue, feeder,
                               keyboard>>
                /\ Len(runners') = Len(runners)
                /\ \A j \in 1..Len(runners) : j # i => runners'[j] = runners[j]
       /\ (Dequeues("Input") /\ \E i \in 1..Len(runners) : SpawnFailed(runners[i])) =>
             /\ mainPc' = "events"
             /\ Len(processes') = Len(processes) + 1
             /\ Len(runners') = Len(runners) + 1
             /\ runners'[Len(runners')].pc = "spawn"
             /\ runners'[Len(runners')].pid = Len(processes)
             /\ runners'[Len(runners')].inputs = Head(queue).inputs
             /\ processes'[Len(processes')].handle = Len(runners')]_vars

\* The first batch's spawn failed, and the second batch's child runs.
C10_Witness ==
    /\ Len(runners) = 2
    /\ SpawnFailed(runners[1])
    /\ runners[2].child = "running"
    /\ RxAlive

\* ------------------------------------------------------------- fairness
\* The threads are OS threads: each one that can take a step eventually
\* takes it.  Nothing is asked of the children (ChildExits) or of the user
\* at the keyboard.
RunnerIds == 1..NumTokens

MainStep ==
    \/ Draw
    \/ RecvEmpty
    \/ HandleKeyEvent
    \/ SpawnSubProcess
    \/ HandleOutputEvent
    \/ HandleExitEvent
    \/ JoinReturns

RunnerStep(i) ==
    /\ i <= Len(runners)
    /\ \/ RunnerSpawn(i)
       \/ RunnerTryWait(i)
       \/ RunnerReadLine(i)
       \/ RunnerDrain(i)
       \/ RunnerReturns(i)

FeederStep == FeederRead \/ FeederSend

Fairness ==
    /\ WF_vars(MainStep)
    /\ WF_vars(FeederStep)
    /\ \A i \in RunnerIds : WF_vars(RunnerStep(i))

\* The same program with a user who can only quit.
FairInit ==
    /\ InitIn([stdin |-> InputTokens, keys |-> QuitKeys, nkeys |-> MaxKeys,
               lines |-> MaxLines, heights |-> FixedHeight,
               nargs |-> NargsChoices])
    /\ BatchIdle

FairSpec == FairInit /\ [][Next]_vars /\ Fairness

\* The runner has sent its Exit event.
ExitSent(i) == i <= Len(runners) /\ runners[i].pc \in {"return", "done"}
ChildExited(i) == i <= Len(runners) /\ runners[i].child = "exited"
\* The runner's thread panicked after its child was spawned: try_wait failed.
WaitFailed(i) ==
    i <= Len(runners) /\ runners[i].pc = "panicked" /\ runners[i].child # "none"
Applied(i) == i <= Len(processes) /\ IsTerminal(processes[i].status)

ShutdownInit ==
    /\ InitIn([stdin |-> InputTokens, keys |-> QuitKeys, nkeys |-> MaxKeys + 1,
               lines |-> MaxLines, heights |-> FixedHeight,
               nargs |-> NargsChoices])
    /\ BatchIdle

ShutdownSpec == ShutdownInit /\ [][Next]_vars

\* C11: once the receiver is gone (App::run has returned or unwound), a send
\* by the keyboard thread, the input thread or a runner thread appends
\* nothing to the channel, and the sending thread does not panic on it.
C11_Original ==
    [][~RxAlive =>
          /\ queue' = queue
          /\ (keyboard.pc = "read" => keyboard'.pc # "panicked")
          /\ (feeder.pc = "send" => feeder'.pc # "panicked")
          /\ \A i \in 1..Len(runners) :
                runners[i].pc \in {"read", "drain"}
                    => runners'[i].pc # "panicked"]_vars

\* C12: while App::run is running, try_recv never returns Disconnected: the
\* channel always has a live Sender, even when the input thread, the
\* keyboard thread and every runner have returned or panicked, so the main
\* thread never panics with "all event senders disconnected".
C12_NeverDisconnected ==
    /\ panicMsg # DisconnectedPanic
    /\ RxAlive => SendersAlive > 0

\* The main thread polls an empty channel after every producer has ended,
\* one of the runners by a panic.
C12_Witness ==
    /\ mainPc = "events"
    /\ queue = <<>>
    /\ ~exit
    /\ keyboard.pc = "done"
    /\ feeder.pc = "done"
    /\ Len(runners) = 2
    /\ runners[1].pc = "panicked"
    /\ runners[2].pc = "done"

\* C13: every child the interactive supervisor has spawned has its stdin
\* disconnected (Stdio::null), as the children of the sequential and the
\* parallel executor have, so that it cannot read the supervisor's stdin.
C13_Original ==
    \A i \in 1..Len(runners) :
        runners[i].child # "none" => runners[i].child_stdin = "null"

\* What the status of an exit result is said to be: Success for exit code
\* 0, Failure(c) for another exit code c, Signal for a death by signal.
StatusOf(res) ==
    CASE res.signal -> Signal
      [] ~res.signal /\ res.code = 0 -> Success
      [] OTHER -> Failure(res.code)

\* C14: the Exit event a runner sends carries the status that belongs to
\* the exit result try_wait returned: Success for a zero exit, Failure(c)
\* for a non-zero exit code c, Signal for a termination by signal.
C14_ExitStatusClassified ==
    [][\A i \in 1..Len(runners) :
          (RxAlive /\ runners[i].pc = "drain" /\ runners'[i].pc = "return")
              => /\ Len(queue') = Len(queue) + 1
                 /\ queue'[Len(queue')] =
                        Exit(runners[i].pid, StatusOf(runners[i].result))]_vars

\* One runner's Exit for a child killed by a signal waits in the channel
\* while another record already has Failure(1).
C14_Witness ==
    /\ \E k \in 1..Len(queue) : queue[k] = Exit(1, Signal)
    /\ Len(processes) = 2
    /\ processes[1].status = Failure(1)

\* =============================================== the executors (exec.rs)
interactiveVars ==
    <<processes, exit, selected, scroll_position, wrap, expanded, max_lines,
      queue, mainPc, joinPid, panicMsg, runners, feeder, keyboard>>

\* Options::nargs in the runs of the executors.
ExecNargs == {1, 2}
\* Mode::Simple runs Sequential, Mode::Parallel runs Parallel.
ExecModes == {"Simple", "Parallel"}

\* The streams of the Command both executors build: .stdin(Stdio::null()).
ExecCommand == [stdin |-> "null", stdout |-> "inherit"]

\* A child process an executor has spawned.  handle is what has become of
\* its Child value: "held", "reaped" (a wait returned its status, which is
\* at index slot of the Vec of statuses) or "dropped".
NewChild(args) ==
    [args |-> args, child_stdin |-> ExecCommand.stdin, state |-> "running",
     result |-> NoResult, handle |-> "held", slot |-> 0]

\* anyhow::Result<Vec<process::ExitStatus>>, and no result yet.
Ok(statuses) == [kind |-> "Ok", statuses |-> statuses]
Err == [kind |-> "Err"]
Pending == [kind |-> "Pending"]

\* The locals of execute.  rest is what the Splitter has not yielded yet,
\* attempts the batches a Command was started for, stderr what eprintln!
\* wrote; exited is Parallel's `exited` and the Vec Sequential collects.
NewExecutor(mode, tokens) ==
    [mode |-> mode, pc |-> IF mode = "Simple" THEN "next" ELSE "spawn",
     rest |-> tokens, attempts |-> <<>>, running |-> <<>>, checked |-> <<>>,
     exited |-> <<>>, stderr |-> <<>>, result |-> Pending]

\* The environment: a running child exits.
ExecChildExits(c) ==
    /\ children[c].state = "running"
    /\ \E res \in ExitResults :
          children' = [children EXCEPT ![c].state = "exited",
                                       ![c].result = res]
    /\ UNCHANGED <<interactiveVars, nargs, env, exec, splitter>>

\* ---------------------------------------------------- Sequential::execute
\* An Err that is skipped: the iteration goes on with the next chunk.
SeqSkips(e) == [e EXCEPT !.pc = "next"]

\* collect() into a Result: the first Err ends the iteration and is what
\* execute returns; the statuses collected so far are dropped.
SeqFails(e) == [e EXCEPT !.pc = "returned", !.result = Err, !.exited = <<>>]

\* One turn of the map over inputs.chunks(options.nargs), up to the spawn
\* inside Command::status: no chunk left ends collect() with Ok.
SeqNext ==
    /\ exec.mode = "Simple"
    /\ exec.pc = "next"
    /\ LET chunk == Chunk(exec.rest, nargs) IN
       IF chunk = <<>>
       THEN /\ exec' = [exec EXCEPT !.pc = "returned",
                                    !.result = Ok(exec.exited)]
            /\ UNCHANGED children
       ELSE LET e == [exec EXCEPT !.rest = Drop(@, Len(chunk)),
                                  !.attempts = Append(@, chunk)]
            IN \/ /\ children' = Append(children, NewChild(chunk))
                  /\ exec' = [e EXCEPT !.pc = "wait"]
               \/ /\ exec' = SeqFails(e)
                  /\ UNCHANGED children
    /\ UNCHANGED <<interactiveVars, nargs, env, splitter>>

\* The wait inside Command::status: it returns the status once the child
\* has exited, or fails.
SeqWait ==
    /\ exec.mode = "Simple"
    /\ exec.pc = "wait"
    /\ LET c == Len(children) IN
       \/ /\ children[c].state = "exited"
          /\ exec' = [exec EXCEPT !.pc = "next",
                                  !.exited = Append(@, children[c].result)]
          /\ children' = [children EXCEPT ![c].handle = "reaped",
                                          ![c].slot = Len(exec.exited) + 1]
       \/ /\ exec' = SeqFails(exec)
          /\ children' = [children EXCEPT ![c].handle = "dropped"]
    /\ UNCHANGED <<interactiveVars, nargs, env, splitter>>

\* ------------------------------------------------------ Parallel::execute
\* One turn of `for child_args in inputs.chunks(options.nargs)`: the child
\* is pushed on `running`, or the failure is printed and the loop goes on.
ParSpawn ==
    /\ exec.mode = "Parallel"
    /\ exec.pc = "spawn"
    /\ LET chunk == Chunk(exec.rest, nargs) IN
       IF chunk = <<>>
       THEN /\ exec' = [exec EXCEPT !.pc = "outer"]
            /\ UNCHANGED children
       ELSE LET e == [exec EXCEPT !.rest = Drop(@, Len(chunk)),
                                  !.attempts = Append(@, chunk)]
            IN \/ /\ children' = Append(children, NewChild(chunk))
                  /\ exec' = [e EXCEPT !.running =
                                           Append(@, Len(children) + 1)]
               \/ /\ exec' = [e EXCEPT !.stderr =
                                 Append(@, "Failed to start process")]
                  /\ UNCHANGED children
    /\ UNCHANGED <<interactiveVars, nargs, env, splitter>>

\* `while !running.is_empty()`: execute returns Ok(exited) when it is.
ParOuter ==
    /\ exec.mode = "Parallel"
    /\ exec.pc = "outer"
    /\ exec' = IF exec.running = <<>>
               THEN [exec EXCEPT !.pc = "returned",
                                 !.result = Ok(exec.exited)]
               ELSE [exec EXCEPT !.pc = "inner"]
    /\ UNCHANGED <<interactiveVars, nargs, env, children, splitter>>

\* One turn of `while let Some(mut child) = running.pop()`: try_wait gives
\* the status of a child that has exited, None for one that runs, or fails;
\* a failure is printed and the Child is dropped.
ParTryWait ==
    /\ exec.mode = "Parallel"
    /\ exec.pc = "inner"
    /\ exec.running # <<>>
    /\ LET c == exec.running[Len(exec.running)]
           e == [exec EXCEPT !.running = SubSeq(@, 1, Len(@) - 1)]
       IN \/ IF children[c].state = "exited"
             THEN /\ exec' = [e EXCEPT !.exited =
                                           Append(@, children[c].result)]
                  /\ children' =
                         [children EXCEPT ![c].handle = "reaped",
                                          ![c].slot = Len(exec.exited) + 1]
             ELSE /\ exec' = [e EXCEPT !.checked = Append(@, c)]
                  /\ UNCHANGED children
          \/ /\ exec' = [e EXCEPT !.stderr =
                                      Append(@, "Error checking child status")]
             /\ children' = [children EXCEPT ![c].handle = "dropped"]
    /\ UNCHANGED <<interactiveVars, nargs, env, splitter>>

\* The children still running forgotten instead of put back.
RequeueNone(run, chk) == run

\* running.extend(checked.drain(..))
Requeue(run, chk) == run \o chk

\* `running` is empty: the sleep, then the checked children go back to
\* `running` and the outer loop tests it again.
ParSleep ==
    /\ exec.mode = "Parallel"
    /\ exec.pc = "inner"
    /\ exec.running = <<>>
    /\ exec' = [exec EXCEPT !.pc = "outer",
                            !.running = Requeue(exec.running, exec.checked),
                            !.checked = <<>>]
    /\ UNCHANGED <<interactiveVars, nargs, env, children, splitter>>

\* ------------------------------------------------ a run of an executor
ExecInit ==
    /\ InitIn([stdin |-> InputTokens, keys |-> {}, nkeys |-> 0,
               lines |-> 0, heights |-> {}, nargs |-> ExecNargs])
    /\ \E mode \in ExecModes : exec = NewExecutor(mode, InputTokens)
    /\ children = <<>>
    /\ splitter = NoSplitter

ExecNext ==
    \/ SeqNext
    \/ SeqWait
    \/ ParSpawn
    \/ ParOuter
    \/ ParTryWait
    \/ ParSleep
    \/ \E c \in 1..Len(children) : ExecChildExits(c)

ExecSpec == ExecInit /\ [][ExecNext]_vars

\* C15: Sequential::execute starts the batches in input order, one child at
\* a time (every earlier child has exited and has been waited for), and a
\* batch whose process fails to start is the last one it starts: execute
\* has then returned Err, not a list of statuses.
C15_SequentialFailFast ==
    exec.mode = "Simple" =>
        /\ \A j \in 1..Len(exec.attempts) :
              exec.attempts[j] = Batch(env.stdin, nargs, j)
        /\ \A c \in 1..(Len(children) - 1) :
              children[c].state = "exited" /\ children[c].handle = "reaped"
        /\ Len(exec.attempts) > Len(children) =>
              /\ Len(exec.attempts) = Len(children) + 1
              /\ exec.pc = "returned"
              /\ exec.result = Err
        /\ exec.result.kind = "Ok" =>
              /\ Len(exec.attempts) = NumBatches(env.stdin, nargs)
              /\ Len(children) = Len(exec.attempts)
              /\ Len(exec.result.statuses) = Len(children)

\* The second of three batches failed to start after the first child was
\* waited for: execute returned Err with the third batch not taken.
C15_Witness ==
    /\ exec.mode = "Simple"
    /\ nargs = 1
    /\ exec.pc = "returned"
    /\ exec.result = Err
    /\ Len(exec.attempts) = 2
    /\ Len(children) = 1
    /\ children[1].handle = "reaped"
    /\ exec.rest = <<"c">>

\* The children whose status a wait has returned.
Reaped == {c \in 1..Len(children) : children[c].handle = "reaped"}

\* Parallel::execute has tried to start every batch, in input order, by the
\* time it leaves its spawn loop.
AllAttempted ==
    /\ \A j \in 1..Len(exec.attempts) :
          exec.attempts[j] = Batch(env.stdin, nargs, j)
    /\ exec.pc # "spawn" => Len(exec.attempts) = NumBatches(env.stdin, nargs)

\* Each reaped child has exited and has a place of its own in the statuses.
OneStatusEach(statuses) ==
    /\ Len(statuses) = Cardinality(Reaped)
    /\ \A c \in Reaped :
          /\ children[c].state = "exited"
          /\ children[c].slot \in 1..Len(statuses)
          /\ statuses[children[c].slot] = children[c].result
    /\ \A c, d \in Reaped : children[c].slot = children[d].slot => c = d

MaxBuf == 4

\* The bytes of a buffer: the NUL byte, a space, a letter, and 0xFF, which
\* is valid nowhere in UTF-8.  A str is the sequence of its bytes.
Nul == 0
Space == 32
LetterA == 97
BadByte == 255
ByteChoices == {Nul, Space, LetterA, BadByte}
Buffers == UNION {[1..n -> ByteChoices] : n \in 0..MaxBuf}
\* Options::nargs in the runs of the splitter.
ChunkSizes == {1, 2}
\* What is done with the Splitter: collect() of its items, or of its chunks.
SplitterUses == {"collect", "chunks"}

\* Option<T>
None == [some |-> FALSE]
Some(v) == [some |-> TRUE, val |-> v]

\* Iterator::position: the index (from 1) of the first byte in S, 0 for None.
Position(bytes, S) ==
    IF \E i \in 1..Len(bytes) : bytes[i] \in S
    THEN CHOOSE i \in 1..Len(bytes) :
            bytes[i] \in S /\ \A j \in 1..(i - 1) : bytes[j] \notin S
    ELSE 0

\* The index of the first byte that is not in S, 0 when all are.
PositionNot(bytes, S) ==
    IF \E i \in 1..Len(bytes) : bytes[i] \notin S
    THEN CHOOSE i \in 1..Len(bytes) :
            bytes[i] \notin S /\ \A j \in 1..(i - 1) : bytes[j] \in S
    ELSE 0

\* bytes.utf8_chunks().next().map(|c| c.valid()): an empty slice has no
\* chunk; the first chunk's valid part ends before the first invalid byte.
FirstValid(bytes) ==
    IF bytes = <<>>
    THEN None
    ELSE LET i == Position(bytes, {BadByte}) IN
         Some(IF i = 0 THEN bytes ELSE SubSeq(bytes, 1, i - 1))

\* NullSplitter::next: the item, and self.buffer after the call.
NullSplitterNext(buffer) ==
    LET null_index == Position(buffer, {Nul}) IN
    IF null_index = 0
    THEN IF buffer = <<>>
         THEN [item |-> None, buffer |-> buffer]
         ELSE [item |-> FirstValid(buffer), buffer |-> <<>>]
    ELSE [item |-> FirstValid(SubSeq(buffer, 1, null_index - 1)),
          buffer |-> SubSeq(buffer, null_index + 1, Len(buffer))]

\* SplitWhitespace::next on what is left of the contents: the next run of
\* bytes that are not white space, if there is one.
SplitWhitespaceNext(rest) ==
    LET i == PositionNot(rest, {Space}) IN
    IF i = 0
    THEN [item |-> None, buffer |-> <<>>]
    ELSE LET tail == SubSeq(rest, i, Len(rest))
             j == Position(tail, {Space})
         IN IF j = 0
            THEN [item |-> Some(tail), buffer |-> <<>>]
            ELSE [item |-> Some(SubSeq(tail, 1, j - 1)),
                  buffer |-> SubSeq(tail, j + 1, Len(tail))]

\* Splitter::null and Splitter::whitespace: the iterator's state is the
\* part of the buffer it has not consumed.
SplitterNull(buffer) == [nul |-> TRUE, buffer |-> buffer]
SplitterWhitespace(buffer) ==
    [nul |-> FALSE,
     buffer |-> IF FirstValid(buffer).some THEN FirstValid(buffer).val
                                           ELSE <<>>]
NewSplitter(nul, buffer) ==
    IF nul THEN SplitterNull(buffer) ELSE SplitterWhitespace(buffer)

\* Splitter::next
SplitterNext(sp) ==
    IF sp.nul THEN NullSplitterNext(sp.buffer)
              ELSE SplitWhitespaceNext(sp.buffer)

\* self.iter.by_ref().take(k).collect(): at most k calls of next, ended by
\* the first None.
RECURSIVE TakeCollect(_, _)
TakeCollect(sp, k) ==
    IF k = 0
    THEN [items |-> <<>>, buffer |-> sp.buffer]
    ELSE LET r == SplitterNext(sp) IN
         IF ~r.item.some
         THEN [items |-> <<>>, buffer |-> r.buffer]
         ELSE LET t == TakeCollect([sp EXCEPT !.buffer = r.buffer], k - 1)
              IN [items |-> <<r.item.val>> \o t.items, buffer |-> t.buffer]

\* SplitterChunks::next
SplitterChunksNext(sp, chunk_size) ==
    LET t == TakeCollect(sp, chunk_size) IN
    [item |-> IF t.items = <<>> THEN None ELSE Some(t.items),
     buffer |-> t.buffer]

\* Iterator::collect on a Splitter: its items up to the first None.
RECURSIVE Collect(_)
Collect(sp) ==
    LET r == SplitterNext(sp) IN
    IF ~r.item.some
    THEN <<>>
    ELSE <<r.item.val>> \o Collect([sp EXCEPT !.buffer = r.buffer])

\* ------------------------------------------------- a run of a Splitter
\* collect() of the Splitter's items: one call of next.
SplitterCollectStep ==
    /\ splitter.pc = "next"
    /\ splitter.use = "collect"
    /\ LET r == SplitterNext(splitter) IN
       splitter' = IF r.item.some
                   THEN [splitter EXCEPT !.buffer = r.buffer,
                                         !.items = Append(@, r.item.val)]
                   ELSE [splitter EXCEPT !.buffer = r.buffer,
                                         !.pc = "done"]
    /\ UNCHANGED <<interactiveVars, nargs, env, exec, children>>

\* collect() of splitter.chunks(nargs), or a `for` over it: one call of
\* SplitterChunks::next.
SplitterChunksStep ==
    /\ splitter.pc = "next"
    /\ splitter.use = "chunks"
    /\ LET r == SplitterChunksNext(splitter, nargs) IN
       splitter' = IF r.item.some
                   THEN [splitter EXCEPT !.buffer = r.buffer,
                                         !.items = Append(@, r.item.val)]
                   ELSE [splitter EXCEPT !.buffer = r.buffer,
                                         !.pc = "done"]
    /\ UNCHANGED <<interactiveVars, nargs, env, exec, children>>

\* A Splitter over any buffer of at most MaxBuf bytes, in either mode.
SplitInit ==
    /\ InitIn([stdin |-> <<>>, keys |-> {}, nkeys |-> 0, lines |-> 0,
               heights |-> {}, nargs |-> ChunkSizes])
    /\ exec = NoExecutor
    /\ children = <<>>
    /\ \E input \in Buffers, nul \in BOOLEAN, use \in SplitterUses :
          splitter = [pc |-> "next", use |-> use, nul |-> nul,
                      input |-> input,
                      buffer |-> NewSplitter(nul, input).buffer,
                      items |-> <<>>]

SplitNext ==
    \/ SplitterCollectStep
    \/ SplitterChunksStep

SplitSpec == SplitInit /\ [][SplitNext]_vars

\* The batches in order, one after the other.
RECURSIVE Flatten(_)
Flatten(chunks) ==
    IF chunks = <<>> THEN <<>> ELSE Head(chunks) \o Flatten(Tail(chunks))

\* C17: in NUL and in whitespace mode, for every buffer and chunk size k,
\* the chunks of a Splitter are ceil(n / k) in number, where n is the number
\* of tokens the Splitter yields, each but the last has k tokens, and in
\* order they make up the token sequence.
C17_Original ==
    (splitter.pc = "done" /\ splitter.use = "chunks") =>
        LET tokens == Collect(NewSplitter(splitter.nul, splitter.input))
            chunks == splitter.items
        IN /\ Len(chunks) = NumBatches(tokens, nargs)
           /\ \A j \in 1..(Len(chunks) - 1) : Len(chunks[j]) = nargs
           /\ Flatten(chunks) = tokens

\* The raw tokens of a buffer: the byte runs between separators; a NUL ends
\* a token (which may be empty), white space separates tokens.
RECURSIVE RawTokens(_, _, _)
RawTokens(bytes, sep, keepEmpty) ==
    LET i == Position(bytes, {sep}) IN
    IF i = 0
    THEN IF bytes = <<>> THEN <<>> ELSE <<bytes>>
    ELSE LET head == SubSeq(bytes, 1, i - 1)
             rest == SubSeq(bytes, i + 1, Len(bytes))
         IN (IF head = <<>> /\ ~keepEmpty THEN <<>> ELSE <<head>>)
                \o RawTokens(rest, sep, keepEmpty)

\* A token cut at its first invalid byte.
CutAtInvalid(token) ==
    LET i == Position(token, {BadByte}) IN
    IF i = 0 THEN token ELSE SubSeq(token, 1, i - 1)

\* Every raw token, each cut at its own first invalid byte.
TokensCutEach(nul, bytes) ==
    LET raw == IF nul THEN RawTokens(bytes, Nul, TRUE)
                      ELSE RawTokens(bytes, Space, FALSE)
    IN [j \in 1..Len(raw) |-> CutAtInvalid(raw[j])]

\* C18: in NUL and in whitespace mode the Splitter yields every token of
\* the buffer, each cut at its own first invalid byte: an invalid byte in
\* one token takes nothing away from the tokens after it.  Stated for the
\* buffers all of whose tokens begin with a valid byte, so that no token
\* is or becomes empty.
C18_Original ==
    LET expected == TokensCutEach(splitter.nul, splitter.input) IN
    (/\ splitter.pc = "done"
     /\ splitter.use = "collect"
     /\ \A j \in 1..Len(expected) : expected[j] # <<>>)
        => splitter.items = expected

\* C19: once a quit key has been applied, exit stays set.  The loop tests
\* it only after handle_events has drained the channel: the events behind
\* the quit key are applied as always (an Input starts a new batch), and
\* App::run returns from the empty channel, without another frame and
\* without touching the runners or their children; the main thread joins
\* a runner only for an Exit event, whose child has exited.  With exit set
\* the main loop comes to its end.
C19_QuitDrainsThenReturns ==
    /\ [][/\ exit => exit'
          /\ (mainPc # "done" /\ mainPc' = "done") =>
                /\ exit /\ mainPc = "events" /\ queue = <<>>
                /\ runners' = runners
                /\ processes' = processes
                /\ max_lines' = max_lines
          /\ (exit /\ mainPc = "events" /\ queue = <<>> /\ mainPc' # mainPc)
                => mainPc' = "done"
          /\ (exit /\ Dequeues("Input")) =>
                /\ Len(processes') = Len(processes) + 1
                /\ processes'[Len(processes')].args = Head(queue).inputs
                /\ Len(runners') = Len(runners) + 1
          /\ (exit /\ Dequeues("Output")) =>
                processes'[Head(queue).pid + 1].output_lines =
                    processes[Head(queue).pid + 1].output_lines
                        \o Head(queue).lines
          /\ (exit /\ Dequeues("Exit")) =>
                processes'[Head(queue).pid + 1].status = Head(queue).status
          /\ (mainPc # "join" /\ mainPc' = "join") =>
                runners'[joinPid'].child = "exited"]_vars
    /\ exit ~> (mainPc \in {"done", "panicked"})

\* The quit key has been applied, and a new batch waits behind it in the
\* channel while the first batch's child is running.
C19_Witness ==
    /\ exit
    /\ mainPc = "events"
    /\ queue # <<>>
    /\ Head(queue).type = "Input"
    /\ Len(processes) = 1
    /\ runners[1].child = "running"

\* ========================================== a session with long output
\* Numbers of lines a child has written so far: none, just over the
\* overview's tail, and around what a u16 holds.
LineCounts == {0, OverviewTail + 1, U16Max, U16Max + 1,
               U16Max + OverviewTail, U16Max + OverviewTail + 1}
\* The keys after which handle_key_event resets the scroll position.
ResetKeys == [code : {"/", "PageUp", "PageDown"}, kind : {"Press"}]

\* The supervisor some time into a run on the tokens a b c, two at a time:
\* the input thread has ended, the first batch's child has exited after
\* OverviewTail + 1 lines and its Exit has been applied, the second batch's
\* child is running and has written n lines; its runner is blocked in
\* read_line, after sending one more line when `sent` is 1.
\* The view was scrolled to the top with Home.
ScrollInitIn(n, sent, sel, exp, height) ==
    /\ processes =
           << [args |-> <<"a", "b">>,
               output_lines |-> ChildLines(OverviewTail + 1),
               status |-> Success, handle |-> NoThread],
              [args |-> <<"c">>, output_lines |-> ChildLines(n),
               status |-> StatusNone, handle |-> 2] >>
    /\ exit = FALSE
    /\ selected = sel
    /\ scroll_position = <<0, 0>>
    /\ wrap = FALSE
    /\ expanded = exp
    /\ max_lines = SatSub(height, FrameBorder)
    /\ queue = IF sent = 1 THEN <<Output(1, <<n + 1>>)>> ELSE <<>>
    /\ mainPc = "events"
    /\ joinPid = NoThread
    /\ panicMsg = ""
    /\ runners =
           << [NewRunner(0, <<"a", "b">>) EXCEPT
                  !.pc = "done", !.child = "exited",
                  !.child_stdin = RunnerCommand.stdin,
                  !.emitted = ChildLines(OverviewTail + 1)],
              [NewRunner(1, <<"c">>) EXCEPT
                  !.pc = "read", !.child = "running",
                  !.child_stdin = RunnerCommand.stdin,
                  !.emitted = ChildLines(n + sent)] >>
    /\ feeder = [pc |-> "done", rest |-> <<>>]
    /\ keyboard = [pc |-> AfterRead(MaxKeys), left |-> MaxKeys]
    /\ nargs = 2
    /\ env = [stdin |-> <<"a", "b", "c">>, keys |-> ResetKeys,
              nkeys |-> MaxKeys, lines |-> 0, heights |-> Heights,
              nargs |-> {2}]
    /\ BatchIdle

ScrollInit ==
    \E n \in LineCounts, sent \in {0, 1}, sel \in {0, 1}, exp \in BOOLEAN,
       height \in Heights :
          ScrollInitIn(n, sent, sel, exp, height)

\* The main thread and the keyboard thread from there on; the runner stays
\* in read_line as long as its child writes nothing more.
ScrollNext ==
    \/ HandleKeyEvent
    \/ HandleOutputEvent
    \/ RecvEmpty
    \/ KeyboardKey
    \/ KeyboardOther

ScrollSpec == ScrollInit /\ [][ScrollNext]_vars

\* max(0, a - b)
MaxZero(a, b) == IF a - b > 0 THEN a - b ELSE 0

\* The tail of the selected record's output: the line offset that shows its
\* last lines, in the expanded and in the overview layout.
TailOf(procs, sel, exp, viewport) ==
    LET n == Len(procs[sel + 1].output_lines) IN
    IF exp THEN MaxZero(n, viewport) ELSE MaxZero(n, 5)

\* C20: after the toggle-expanded key, the previous/next-process keys and
\* an Output event for the selected record, the scroll position is
\* (tail, 0), where tail is max(0, len - max_lines) in the expanded layout
\* and max(0, len - 5) in the overview, for the length of the selected
\* record's output; an Output event for another record leaves the scroll
\* position as it is.
C20_Original ==
    [][/\ ((\/ (Dequeues("KeyEvent") /\ Head(queue).key \in ResetKeys)
            \/ (Dequeues("Output") /\ Head(queue).pid = selected))
           /\ mainPc' # "panicked")
          => scroll_position' =
                 <<TailOf(processes', selected', expanded', max_lines'), 0>>
       /\ (Dequeues("Output") /\ Head(queue).pid # selected)
          => scroll_position' = scroll_position]_vars

\* ============================================ a session with every key
\* Numbers of lines the running child has written so far.
KeyLineCounts == {0, OverviewTail + 1, U16Max + 1, U16Max + OverviewTail + 1}
\* Column offsets the Right key leads to: none, one step, and the last
\* multiple of ColumnStep a u16 holds.
KeyColumns == {0, ColumnStep, U16Max - (ColumnStep - 1)}

\* The supervisor some time into a run on the tokens a b c, two at a time,
\* as in ScrollInitIn with nothing in the channel: the first child has
\* exited, the second has written n lines and its runner is blocked in
\* read_line.  The user has moved the view with the key `line` (Home, one
\* Down after it, or End) and to column `col`, and set wrap to `wr`.
KeysInitIn(n, sel, exp, line, col, wr) ==
    /\ processes =
           << [args |-> <<"a", "b">>,
               output_lines |-> ChildLines(OverviewTail + 1),
               status |-> Success, handle |-> NoThread],
              [args |-> <<"c">>, output_lines |-> ChildLines(n),
               status |-> StatusNone, handle |-> 2] >>
    /\ exit = FALSE
    /\ selected = sel
    /\ scroll_position =
           << CASE line = "Home" -> 0
                [] line = "Down" -> Min(1, LastLine(processes, sel))
                [] line = "End" -> LastLine(processes, sel),
              col >>
    /\ wrap = wr
    /\ expanded = exp
    /\ \E height \in FixedHeight : max_lines = SatSub(height, FrameBorder)
    /\ queue = <<>>
    /\ mainPc = "events"
    /\ joinPid = NoThread
    /\ panicMsg = ""
    /\ runners =
           << [NewRunner(0, <<"a", "b">>) EXCEPT
                  !.pc = "done", !.child = "exited",
                  !.child_stdin = RunnerCommand.stdin,
                  !.emitted = ChildLines(OverviewTail + 1)],
              [NewRunner(1, <<"c">>) EXCEPT
                  !.pc = "read", !.child = "running",
                  !.child_stdin = RunnerCommand.stdin,
                  !.emitted = ChildLines(n)] >>
    /\ feeder = [pc |-> "done", rest |-> <<>>]
    /\ keyboard = [pc |-> AfterRead(MaxKeys), left |-> MaxKeys]
    /\ nargs = 2
    /\ env = [stdin |-> <<"a", "b", "c">>, keys |-> KeyEvents,
              nkeys |-> MaxKeys, lines |-> 0, heights |-> FixedHeight,
              nargs |-> {2}]
    /\ BatchIdle

KeysInit ==
    \E n \in KeyLineCounts, sel \in {0, 1}, exp \in BOOLEAN,
       line \in {"Home", "Down", "End"}, col \in KeyColumns, wr \in BOOLEAN :
          KeysInitIn(n, sel, exp, line, col, wr)

\* The main thread and the keyboard thread from there on.
KeysNext ==
    \/ HandleKeyEvent
    \/ RecvEmpty
    \/ KeyboardKey
    \/ KeyboardOther

KeysSpec == KeysInit /\ [][KeysNext]_vars

\* handle_events takes a press of the key `code` from the channel.
PressOf(code) ==
    /\ Dequeues("KeyEvent")
    /\ Head(queue).key = [code |-> code, kind |-> "Press"]

\* x brought into lo..hi
Clamp(x, lo, hi) == IF x < lo THEN lo ELSE IF x > hi THEN hi ELSE x

\* The index of the last line of the selected record's output, 0 when it
\* has none.
LastIndex == MaxZero(Len(processes[selected + 1].output_lines), 1)

\* C21: with a selected record, Up and Down move the line offset one line
\* up or down, clamped to 0 .. len(selected.output_lines) - 1; Home sets it
\* to 0 and End to the index of the last line; none of the four changes
\* selected, expanded, wrap or the column offset.
C21_Original ==
    [][selected < Len(processes) =>
          /\ PressOf("Up") =>
                 scroll_position'[1] = Clamp(scroll_position[1] - 1, 0, LastIndex)
          /\ PressOf("Down") =>
                 scroll_position'[1] = Clamp(scroll_position[1] + 1, 0, LastIndex)
          /\ PressOf("Home") => scroll_position'[1] = 0
          /\ PressOf("End") => scroll_position'[1] = LastIndex
          /\ (\E code \in {"Up", "Down", "Home", "End"} : PressOf(code)) =>
                 /\ selected' = selected
                 /\ expanded' = expanded
                 /\ wrap' = wrap
                 /\ scroll_position'[2] = scroll_position[2]]_vars

\* C22 as stated: with wrap off, Left moves the column offset 4 to the left,
\* stopping at 0, and Right moves it 4 to the right; with wrap on both set
\* it to 0; the toggle-wrap key flips wrap and changes neither the scroll
\* position, nor selected, expanded or any record.
C22_Original ==
    [][/\ PressOf("Left") =>
              scroll_position'[2] =
                  IF wrap THEN 0 ELSE MaxZero(scroll_position[2], 4)
       /\ PressOf("Right") =>
              scroll_position'[2] = IF wrap THEN 0 ELSE scroll_position[2] + 4
       /\ PressOf("w") =>
              /\ wrap' = ~wrap
              /\ scroll_position' = scroll_position
              /\ selected' = selected
              /\ expanded' = expanded
              /\ processes' = processes]_vars

\* C22: as above, with Right stopping at the largest column offset, 65535.
C22_HorizontalScroll ==
    [][/\ PressOf("Left") =>
              scroll_position'[2] =
                  IF wrap THEN 0 ELSE MaxZero(scroll_position[2], 4)
       /\ PressOf("Right") =>
              scroll_position'[2] =
                  IF wrap THEN 0
                  ELSE IF scroll_position[2] + 4 > 65535 THEN 65535
                  ELSE scroll_position[2] + 4
       /\ PressOf("w") =>
              /\ wrap' = ~wrap
              /\ scroll_position' = scroll_position
              /\ selected' = selected
              /\ expanded' = expanded
              /\ processes' = processes]_vars

\* Right has been pressed with wrap off at the last multiple of 4, and the
\* press has been handled.
C22_Witness ==
    /\ scroll_position[2] = U16Max
    /\ ~wrap
    /\ keyboard.left = 0
    /\ queue = <<>>
    /\ mainPc = "events"

\* ======================================= every key, from the first frame
\* App::run from its start, with a keyboard that can send any key event.
AllKeysInit ==
    /\ InitIn([stdin |-> InputTokens, keys |-> KeyEvents, nkeys |-> MaxKeys,
               lines |-> MaxLines, heights |-> FixedHeight,
               nargs |-> NargsChoices])
    /\ BatchIdle

AllKeysSpec == AllKeysInit /\ [][Next]_vars

\* C23: handling a key press never aborts the supervisor, whatever the key
\* and the state, the state before the first batch included, where
\* processes is empty.
C23_Original ==
    [][(\E code \in KeyCodes : PressOf(code)) => mainPc' # "panicked"]_vars

\* C24: whenever there is a selected record, the line offset is a position
\* in its output: at most max(0, len(selected.output_lines) - 1).
C24_Original ==
    selected < Len(processes) => scroll_position[1] <= LastIndex

\* C25: the join of handle_exit_event always returns.  While the main loop
\* is in join, the joined runner has sent Exit and has only its return
\* left, and the join ends; a runner whose thread panicked (spawn or
\* try_wait failed) has sent no Exit, is never joined, and its record keeps
\* no status (Running) and its handle.
C25_JoinAlwaysReturns ==
    /\ [](mainPc = "join" =>
             /\ joinPid \in 1..Len(runners)
             /\ runners[joinPid].pc \in {"return", "done"})
    /\ [](\A i \in 1..Len(runners) :
             runners[i].pc = "panicked" =>
                /\ joinPid # i
                /\ processes[runners[i].pid + 1].status = StatusNone
                /\ processes[runners[i].pid + 1].handle = i
                /\ \A k \in 1..Len(queue) :
                      ~(queue[k].type = "Exit" /\ queue[k].pid = runners[i].pid))
    /\ (mainPc = "join") ~> (mainPc # "join")

\* The main loop is in join on the second runner, which has sent Exit and
\* not yet returned, while the first runner has panicked and its record
\* still shows no status.
C25_Witness ==
    /\ mainPc = "join"
    /\ joinPid = 2
    /\ runners[2].pc = "return"
    /\ runners[1].pc = "panicked"
    /\ processes[1].status = StatusNone
    /\ processes[1].handle = 1

====
